---- MODULE Spec2Model ----
(***************************************************************************)
(* ClaudeApprover PreToolUse hook (src/hook/menubar-approval.py).          *)
(*                                                                         *)
(* The hook reads one JSON document from stdin, classifies the tool        *)
(* invocation with three ordered tables of regular expressions, consults   *)
(* the permissions.allow lists of the settings documents for "medium"      *)
(* verdicts, and posts a notification to the approval front end.           *)
(*                                                                         *)
(* Texts are TLA+ strings; positions are 1-based, position p standing      *)
(* before the p-th character.  All model texts are ASCII, so Python's      *)
(* Unicode \w and \s are their ASCII classes here (no \v in TLA+ strings). *)
(***************************************************************************)
EXTENDS Integers, Sequences, FiniteSets, TLC

VARIABLES
    pc,             \* position of the process in main() / the function being applied
    stdin,          \* the inbound document
    fs,             \* the settings documents on disk, in the order they are loaded
    tool_name,      \* main(): hook_input.get("tool_name", "")
    tool_input,     \* main(): hook_input.get("tool_input", {})
    risk,           \* result of classify_risk
    allowed,        \* result of is_allowed_by_settings
    health_checks,  \* number of GETs of APPROVER_HEALTH_URL
    polls,          \* iterations of the wait loop of _ensure_approver_running
    popen_calls,    \* number of subprocess.Popen calls
    approver,       \* what _ensure_approver_running found
    ollama_calls,   \* number of POSTs to OLLAMA_URL
    summary,        \* where the summary text came from
    notify_calls,   \* number of POSTs to APPROVER_URL
    notify_result,  \* return value of notify_approver
    envelope,       \* body of the POST to APPROVER_URL
    dismissal,      \* menubar-dismiss.py: body of its POST to /api/dismiss
    exit_status     \* process exit status, -1 while running

vars == <<pc, stdin, fs, tool_name, tool_input, risk, allowed, health_checks, polls,
          popen_calls, approver, ollama_calls, summary, notify_calls, notify_result,
          envelope, dismissal, exit_status>>

(***************************************************************************)
(* Bounds of the model.                                                    *)
(***************************************************************************)
MaxDocs == 2    \* settings documents found on disk
MaxCd == 2      \* leading "cd" segments of a generated compound command

(***************************************************************************)
(* Python's re, for the constructs the pattern tables use.  A pattern is a *)
(* tree of records; Matches is a backtracking matcher over a list of nodes *)
(* still to match, as sre's.                                               *)
(***************************************************************************)
SpaceChars == {" ", "\t", "\n", "\r", "\f"}
WordChars ==
    {"a", "b", "c", "d", "e", "f", "g", "h", "i", "j", "k", "l", "m",
     "n", "o", "p", "q", "r", "s", "t", "u", "v", "w", "x", "y", "z",
     "A", "B", "C", "D", "E", "F", "G", "H", "I", "J", "K", "L", "M",
     "N", "O", "P", "Q", "R", "S", "T", "U", "V", "W", "X", "Y", "Z",
     "0", "1", "2", "3", "4", "5", "6", "7", "8", "9", "_"}

Lit(w) == [op |-> "lit", w |-> w]                  \* a literal text
In(S) == [op |-> "in", set |-> S]                  \* [...]
NotIn(S) == [op |-> "notin", set |-> S]            \* [^...]
AnyChar == NotIn({"\n"})                           \* .
Cat(items) == [op |-> "cat", items |-> items]      \* r1 r2 ...
Alt(items) == [op |-> "alt", items |-> items]      \* r1|r2|...
Star(r) == [op |-> "star", r |-> r]                \* r*
Plus(r) == [op |-> "plus", r |-> r]                \* r+
Opt(r) == [op |-> "opt", r |-> r]                  \* r?
NotAhead(r) == [op |-> "notahead", r |-> r]        \* (?!r)
NotBehind(r) == [op |-> "notbehind", r |-> r]      \* (?<!r)
Bnd == [op |-> "bnd"]                              \* \b
Bol == [op |-> "bol"]                              \* ^
Eol == [op |-> "eol"]                              \* $
At(q) == [op |-> "at", q |-> q]                    \* matcher-internal: position is q
Past(q) == [op |-> "past", q |-> q]                \* matcher-internal: position is beyond q

Ch(s, p) == SubSeq(s, p, p)
IsWordAt(s, p) == p >= 1 /\ p <= Len(s) /\ Ch(s, p) \in WordChars

RECURSIVE Matches(_, _, _)
Matches(todo, s, p) ==
    IF todo = <<>> THEN TRUE
    ELSE LET r == Head(todo)
             rest == Tail(todo)
         IN CASE r.op = "bnd" -> IsWordAt(s, p - 1) # IsWordAt(s, p) /\ Matches(rest, s, p)
              [] r.op = "bol" -> p = 1 /\ Matches(rest, s, p)
              [] r.op = "lit" ->
                   /\ p + Len(r.w) - 1 <= Len(s)
                   /\ SubSeq(s, p, p + Len(r.w) - 1) = r.w
                   /\ Matches(rest, s, p + Len(r.w))
              [] r.op = "cat" -> Matches(r.items \o rest, s, p)
              [] r.op = "in" -> p <= Len(s) /\ Ch(s, p) \in r.set /\ Matches(rest, s, p + 1)
              [] r.op = "notin" ->
                   p <= Len(s) /\ Ch(s, p) \notin r.set /\ Matches(rest, s, p + 1)
              [] r.op = "alt" ->
                   \E i \in 1..Len(r.items) : Matches(<<r.items[i]>> \o rest, s, p)
              [] r.op = "star" ->
                   Matches(<<r.r, Past(p), r>> \o rest, s, p) \/ Matches(rest, s, p)
              [] r.op = "plus" -> Matches(<<r.r, Star(r.r)>> \o rest, s, p)
              [] r.op = "opt" -> Matches(<<r.r>> \o rest, s, p) \/ Matches(rest, s, p)
              [] r.op = "notahead" -> ~Matches(<<r.r>>, s, p) /\ Matches(rest, s, p)
              [] r.op = "notbehind" ->
                   /\ ~\E q \in 1..p : Matches(<<r.r, At(p)>>, s, q)
                   /\ Matches(rest, s, p)
              [] r.op = "eol" ->
                   /\ p = Len(s) + 1 \/ (p = Len(s) /\ Ch(s, p) = "\n")
                   /\ Matches(rest, s, p)
              [] r.op = "at" -> p = r.q /\ Matches(rest, s, p)
              [] r.op = "past" -> p > r.q /\ Matches(rest, s, p)

\* pattern.search(s): a match starting at any position
search(r, s) == \E p \in 1..(Len(s) + 1) : Matches(<<r>>, s, p)

\* str methods
contains(s, sub) ==
    \E p \in 1..(Len(s) - Len(sub) + 1) : SubSeq(s, p, p + Len(sub) - 1) = sub
startswith(s, prefix) == Len(prefix) <= Len(s) /\ SubSeq(s, 1, Len(prefix)) = prefix
endswith(s, suffix) ==
    Len(suffix) <= Len(s) /\ SubSeq(s, Len(s) - Len(suffix) + 1, Len(s)) = suffix

(***************************************************************************)
(* The pattern tables, in declaration order (the labels and descriptions   *)
(* of the source triples are display texts; a rule is named by its index). *)
(***************************************************************************)
Sp0 == Star(In(SpaceChars))    \* \s*
Sp1 == Plus(In(SpaceChars))    \* \s+

HIGH_RISK_PATTERNS ==
    <<
       Cat(<<Bnd, Lit("rm"), Sp1, Lit("-"), Star(NotIn(SpaceChars)), Lit("r")>>),  \* l.36  \brm\s+-[^\s]*r
       Cat(<<Bnd, Lit("rm"), Sp1>>),  \* l.37  \brm\s+
       Cat(<<Bnd, Lit("find"), Bnd, Star(AnyChar), Lit("-delete"), Bnd>>),  \* l.38  \bfind\b.*-delete\b
       Cat(<<Bnd, Lit("find"), Bnd, Star(AnyChar), Lit("-exec"), Bnd>>),  \* l.39  \bfind\b.*-exec\b
       Cat(<<Bnd, Lit("truncate"), Bnd>>),  \* l.40  \btruncate\b
       Cat(<<Bnd, Lit("git"), Sp1, Lit("push"), Sp1, Lit("--force"), Bnd>>),  \* l.42  \bgit\s+push\s+--force\b
       Cat(<<Bnd, Lit("git"), Sp1, Lit("push"), Bnd>>),  \* l.43  \bgit\s+push\b
       Cat(<<Bnd, Lit("git"), Sp1, Lit("reset"), Sp1, Lit("--hard"), Bnd>>),  \* l.44  \bgit\s+reset\s+--hard\b
       Cat(<<Bnd, Lit("git"), Sp1, Lit("clean"), Bnd>>),  \* l.45  \bgit\s+clean\b
       Cat(<<Bnd, Lit("git"), Sp1, Lit("checkout"), Sp1, Lit("."), Sp0, Eol>>),  \* l.46  \bgit\s+checkout\s+\.\s*$
       Cat(<<Bnd, Lit("git"), Sp1, Lit("restore"), Sp1, Lit("."), Sp0, Eol>>),  \* l.47  \bgit\s+restore\s+\.\s*$
       Cat(<<Bnd, Lit("git"), Sp1, Lit("branch"), Sp1, Lit("-D"), Bnd>>),  \* l.48  \bgit\s+branch\s+-D\b
       Cat(<<Bnd, Lit("git"), Sp1, Lit("stash"), Sp1, Lit("clear"), Bnd>>),  \* l.49  \bgit\s+stash\s+clear\b
       Cat(<<Bnd, Lit("git"), Sp1, Lit("stash"), Sp1, Lit("drop"), Bnd>>),  \* l.50  \bgit\s+stash\s+drop\b
       Cat(<<Bnd, Lit("gh"), Sp1, Lit("pr"), Sp1, Lit("merge"), Bnd>>),  \* l.52  \bgh\s+pr\s+merge\b
       Cat(<<Bnd, Lit("sudo"), Bnd>>),  \* l.54  \bsudo\b
       Cat(<<Bnd, Lit("systemctl"), Bnd>>),  \* l.55  \bsystemctl\b
       Cat(<<Bnd, Lit("launchctl"), Bnd>>),  \* l.56  \blaunchctl\b
       Cat(<<Bnd, Lit("reboot"), Bnd>>),  \* l.57  \breboot\b
       Cat(<<Bnd, Lit("shutdown"), Bnd>>),  \* l.58  \bshutdown\b
       Cat(<<Bnd, Lit("curl"), Bnd, Star(AnyChar), Lit("|"), Sp0, Opt(Lit("ba")), Lit("sh"), Bnd>>),  \* l.60  \bcurl\b.*\|\s*(ba)?sh\b
       Cat(<<Bnd, Lit("wget"), Bnd, Star(AnyChar), Lit("|"), Sp0, Opt(Lit("ba")), Lit("sh"), Bnd>>),  \* l.61  \bwget\b.*\|\s*(ba)?sh\b
       Cat(<<Bnd, Lit("chmod"), Bnd>>),  \* l.63  \bchmod\b
       Cat(<<Bnd, Lit("chown"), Bnd>>),  \* l.64  \bchown\b
       Cat(<<Bnd, Lit("killall"), Bnd>>),  \* l.66  \bkillall\b
       Cat(<<Bnd, Lit("kill"), Bnd>>),  \* l.67  \bkill\b
       Cat(<<Bnd, Lit("sshpass"), Bnd>>),  \* l.69  \bsshpass\b
       Cat(<<Bnd, Lit("ssh"), Bnd>>),  \* l.70  \bssh\b
       Cat(<<Bnd, Lit("scp"), Bnd>>),  \* l.71  \bscp\b
       Cat(<<Bnd, Lit("rsync"), Bnd>>),  \* l.72  \brsync\b
       Cat(<<Bnd, Lit("sed"), Sp1, Lit("-i"), Bnd>>),  \* l.74  \bsed\s+-i\b
       Cat(<<Bnd, Lit("dd"), Bnd>>),  \* l.76  \bdd\b
       Cat(<<Bnd, Lit("eval"), Bnd>>),  \* l.77  \beval\b
       Cat(<<Bnd, Lit("crontab"), Bnd>>),  \* l.78  \bcrontab\b
       Cat(<<Bnd, Lit("npm"), Sp1, Lit("publish"), Bnd>>),  \* l.80  \bnpm\s+publish\b
       Cat(<<Lit(">>"), NotIn({">"})>>),  \* l.82  >>[^>]
       Cat(<<NotBehind(In({">", "1", "2"})), Lit(">"), NotIn({">"})>>)  \* l.83  (?<![>12])>[^>]
    >>

MEDIUM_RISK_PATTERNS ==
    <<
       Cat(<<Bnd, Lit("npm"), Sp1, Alt(<<Lit("ci"), Lit("install")>>), Bnd>>),  \* l.89  \bnpm\s+(ci|install)\b
       Cat(<<Bnd, Lit("yarn"), Sp1, Alt(<<Lit("add"), Lit("install")>>), Bnd>>),  \* l.90  \byarn\s+(add|install)\b
       Cat(<<Bnd, Lit("pip"), Sp1, Lit("install"), Bnd>>),  \* l.91  \bpip\s+install\b
       Cat(<<Bnd, Lit("brew"), Sp1, Lit("install"), Bnd>>),  \* l.92  \bbrew\s+install\b
       Cat(<<Bnd, Lit("gem"), Sp1, Lit("install"), Bnd>>),  \* l.93  \bgem\s+install\b
       Cat(<<Bnd, Lit("cargo"), Sp1, Lit("install"), Bnd>>),  \* l.94  \bcargo\s+install\b
       Cat(<<Bnd, Lit("conda"), Sp1, Lit("install"), Bnd>>),  \* l.95  \bconda\s+install\b
       Cat(<<Bnd, Lit("bun"), Sp1, Alt(<<Lit("add"), Lit("install")>>), Bnd>>),  \* l.96  \bbun\s+(add|install)\b
       Cat(<<Bnd, Lit("git"), Sp1, Lit("add"), Bnd>>),  \* l.98  \bgit\s+add\b
       Cat(<<Bnd, Lit("git"), Sp1, Lit("commit"), Bnd>>),  \* l.99  \bgit\s+commit\b
       Cat(<<Bnd, Lit("git"), Sp1, Lit("checkout"), Bnd>>),  \* l.100  \bgit\s+checkout\b
       Cat(<<Bnd, Lit("git"), Sp1, Lit("merge"), Bnd>>),  \* l.101  \bgit\s+merge\b
       Cat(<<Bnd, Lit("git"), Sp1, Lit("pull"), Bnd>>),  \* l.102  \bgit\s+pull\b
       Cat(<<Bnd, Lit("git"), Sp1, Lit("clone"), Bnd>>),  \* l.103  \bgit\s+clone\b
       Cat(<<Bnd, Lit("git"), Sp1, Lit("rebase"), Bnd>>),  \* l.104  \bgit\s+rebase\b
       Cat(<<Bnd, Lit("git"), Sp1, Lit("cherry-pick"), Bnd>>),  \* l.105  \bgit\s+cherry-pick\b
       Cat(<<Bnd, Lit("mkdir"), Bnd>>),  \* l.107  \bmkdir\b
       Cat(<<Bnd, Lit("touch"), Bnd>>),  \* l.108  \btouch\b
       Cat(<<Bnd, Lit("cp"), Bnd>>),  \* l.109  \bcp\b
       Cat(<<Bnd, Lit("mv"), Bnd>>),  \* l.110  \bmv\b
       Cat(<<Bnd, Lit("ln"), Bnd>>),  \* l.111  \bln\b
       Cat(<<Bnd, Lit("tee"), Bnd>>),  \* l.112  \btee\b
       Cat(<<Bnd, Lit("tar"), Bnd>>),  \* l.114  \btar\b
       Cat(<<Bnd, Lit("unzip"), Bnd>>),  \* l.115  \bunzip\b
       Cat(<<Bnd, Lit("zip"), Bnd>>),  \* l.116  \bzip\b
       Cat(<<Bnd, Lit("npx"), Bnd>>),  \* l.118  \bnpx\b
       Cat(<<Bnd, Lit("npm"), Sp1, Alt(<<Lit("run"), Lit("start"), Lit("test")>>), Bnd>>),  \* l.119  \bnpm\s+(run|start|test)\b
       Cat(<<Bnd, Lit("node"), Bnd>>),  \* l.120  \bnode\b
       Cat(<<Bnd, Lit("python"), Opt(Lit("3")), Bnd>>),  \* l.121  \bpython3?\b
       Cat(<<Bnd, Lit("ruby"), Bnd>>),  \* l.122  \bruby\b
       Cat(<<Bnd, Lit("jest"), Bnd>>),  \* l.123  \bjest\b
       Cat(<<Bnd, Lit("pytest"), Bnd>>),  \* l.124  \bpytest\b
       Cat(<<Bnd, Lit("playwright"), Bnd>>),  \* l.125  \bplaywright\b
       Cat(<<Bnd, Lit("bun"), Sp1, Lit("run"), Bnd>>),  \* l.126  \bbun\s+run\b
       Cat(<<Bnd, Lit("bun"), Sp1, Lit("test"), Bnd>>),  \* l.127  \bbun\s+test\b
       Cat(<<Bnd, Lit("make"), Bnd>>),  \* l.129  \bmake\b
       Cat(<<Bnd, Lit("cmake"), Bnd>>),  \* l.130  \bcmake\b
       Cat(<<Bnd, Lit("tsc"), Bnd>>),  \* l.131  \btsc\b
       Cat(<<Bnd, Lit("webpack"), Bnd>>),  \* l.132  \bwebpack\b
       Cat(<<Bnd, Lit("swift"), Sp1, Lit("build"), Bnd>>),  \* l.133  \bswift\s+build\b
       Cat(<<Bnd, Lit("swift"), Sp1, Lit("run"), Bnd>>),  \* l.134  \bswift\s+run\b
       Cat(<<Bnd, Lit("swift"), Sp1, Lit("test"), Bnd>>),  \* l.135  \bswift\s+test\b
       Cat(<<Bnd, Lit("eslint"), Bnd>>),  \* l.137  \beslint\b
       Cat(<<Bnd, Lit("prettier"), Bnd>>),  \* l.138  \bprettier\b
       Cat(<<Bnd, Lit("black"), Bnd>>),  \* l.139  \bblack\b
       Cat(<<Bnd, Lit("flask"), Bnd>>),  \* l.141  \bflask\b
       Cat(<<Bnd, Lit("psql"), Bnd>>),  \* l.142  \bpsql\b
       Cat(<<Bnd, Lit("mysql"), Bnd>>),  \* l.143  \bmysql\b
       Cat(<<Bnd, Lit("sqlite3"), Bnd>>),  \* l.144  \bsqlite3\b
       Cat(<<Bnd, Lit("docker"), Bnd>>),  \* l.145  \bdocker\b
       Cat(<<Bnd, Lit("kubectl"), Bnd>>),  \* l.146  \bkubectl\b
       Cat(<<Bnd, Lit("supabase"), Bnd>>),  \* l.147  \bsupabase\b
       Cat(<<Bnd, Lit("curl"), Bnd>>),  \* l.149  \bcurl\b
       Cat(<<Bnd, Lit("wget"), Bnd>>),  \* l.150  \bwget\b
       Cat(<<Bnd, Lit("firebase"), Sp1, Lit("deploy"), Bnd>>),  \* l.152  \bfirebase\s+deploy\b
       Cat(<<Bnd, Lit("terraform"), Bnd>>),  \* l.153  \bterraform\b
       Cat(<<Bnd, Lit("gcloud"), Bnd>>),  \* l.154  \bgcloud\b
       Cat(<<Bnd, Lit("vercel"), Bnd>>)  \* l.155  \bvercel\b
    >>

LOW_RISK_PATTERNS ==
    <<
       Cat(<<Bol, Sp0, Lit("ls"), Bnd>>),  \* l.161  ^\s*ls\b
       Cat(<<Bol, Sp0, Lit("cat"), Bnd>>),  \* l.162  ^\s*cat\b
       Cat(<<Bol, Sp0, Lit("head"), Bnd>>),  \* l.163  ^\s*head\b
       Cat(<<Bol, Sp0, Lit("tail"), Bnd>>),  \* l.164  ^\s*tail\b
       Cat(<<Bol, Sp0, Lit("tree"), Bnd>>),  \* l.165  ^\s*tree\b
       Cat(<<Bol, Sp0, Lit("wc"), Bnd>>),  \* l.166  ^\s*wc\b
       Cat(<<Bol, Sp0, Lit("file"), Bnd>>),  \* l.167  ^\s*file\b
       Cat(<<Bol, Sp0, Lit("less"), Bnd>>),  \* l.168  ^\s*less\b
       Cat(<<Bol, Sp0, Lit("more"), Bnd>>),  \* l.169  ^\s*more\b
       Cat(<<Bol, Sp0, Lit("pwd"), Bnd>>),  \* l.171  ^\s*pwd\b
       Cat(<<Bol, Sp0, Lit("cd"), Bnd>>),  \* l.172  ^\s*cd\b
       Cat(<<Bol, Sp0, Lit("uname"), Bnd>>),  \* l.174  ^\s*uname\b
       Cat(<<Bol, Sp0, Lit("hostname"), Bnd>>),  \* l.175  ^\s*hostname\b
       Cat(<<Bol, Sp0, Lit("whoami"), Bnd>>),  \* l.176  ^\s*whoami\b
       Cat(<<Bol, Sp0, Lit("date"), Bnd>>),  \* l.177  ^\s*date\b
       Cat(<<Bol, Sp0, Lit("uptime"), Bnd>>),  \* l.178  ^\s*uptime\b
       Cat(<<Bol, Sp0, Lit("which"), Bnd>>),  \* l.179  ^\s*which\b
       Cat(<<Bol, Sp0, Lit("type"), Bnd>>),  \* l.180  ^\s*type\b
       Cat(<<Bol, Sp0, Lit("echo"), Bnd>>),  \* l.181  ^\s*echo\b
       Cat(<<Bol, Sp0, Lit("printf"), Bnd>>),  \* l.182  ^\s*printf\b
       Cat(<<Bol, Sp0, Lit("env"), Bnd>>),  \* l.183  ^\s*env\b
       Cat(<<Bol, Sp0, Lit("printenv"), Bnd>>),  \* l.184  ^\s*printenv\b
       Cat(<<Bol, Sp0, Lit("grep"), Bnd>>),  \* l.186  ^\s*grep\b
       Cat(<<Bol, Sp0, Lit("rg"), Bnd>>),  \* l.187  ^\s*rg\b
       Cat(<<Bol, Sp0, Lit("find"), Bnd, NotAhead(Cat(<<Star(AnyChar), Cat(<<Lit("-"), Alt(<<Lit("delete"), Lit("exec")>>)>>)>>))>>),  \* l.188  ^\s*find\b(?!.*(-delete|-exec))
       Cat(<<Bol, Sp0, Lit("diff"), Bnd>>),  \* l.189  ^\s*diff\b
       Cat(<<Bol, Sp0, Lit("sort"), Bnd>>),  \* l.190  ^\s*sort\b
       Cat(<<Bol, Sp0, Lit("uniq"), Bnd>>),  \* l.191  ^\s*uniq\b
       Cat(<<Bol, Sp0, Lit("awk"), Bnd>>),  \* l.192  ^\s*awk\b
       Cat(<<Bol, Sp0, Lit("sed"), Bnd, NotAhead(Cat(<<Star(AnyChar), Lit("-i")>>))>>),  \* l.193  ^\s*sed\b(?!.*-i)
       Cat(<<Bol, Sp0, Lit("cut"), Bnd>>),  \* l.194  ^\s*cut\b
       Cat(<<Bol, Sp0, Lit("tr"), Bnd>>),  \* l.195  ^\s*tr\b
       Cat(<<Bol, Sp0, Lit("jq"), Bnd>>),  \* l.196  ^\s*jq\b
       Cat(<<Bol, Sp0, Lit("xargs"), Bnd>>),  \* l.197  ^\s*xargs\b
       Cat(<<Bol, Sp0, Lit("git"), Sp1, Lit("status"), Bnd>>),  \* l.199  ^\s*git\s+status\b
       Cat(<<Bol, Sp0, Lit("git"), Sp1, Lit("log"), Bnd>>),  \* l.200  ^\s*git\s+log\b
       Cat(<<Bol, Sp0, Lit("git"), Sp1, Lit("branch"), Bnd, NotAhead(Cat(<<Star(AnyChar), Lit("-"), In({"d", "D"})>>))>>),  \* l.201  ^\s*git\s+branch\b(?!.*-[dD])
       Cat(<<Bol, Sp0, Lit("git"), Sp1, Lit("diff"), Bnd>>),  \* l.202  ^\s*git\s+diff\b
       Cat(<<Bol, Sp0, Lit("git"), Sp1, Lit("show"), Bnd>>),  \* l.203  ^\s*git\s+show\b
       Cat(<<Bol, Sp0, Lit("git"), Sp1, Lit("remote"), Bnd>>),  \* l.204  ^\s*git\s+remote\b
       Cat(<<Bol, Sp0, Lit("git"), Sp1, Lit("tag"), Bnd>>),  \* l.205  ^\s*git\s+tag\b
       Cat(<<Bol, Sp0, Lit("git"), Sp1, Lit("stash"), Sp1, Lit("list"), Bnd>>),  \* l.206  ^\s*git\s+stash\s+list\b
       Cat(<<Bol, Sp0, Lit("git"), Sp1, Lit("rev-parse"), Bnd>>),  \* l.207  ^\s*git\s+rev-parse\b
       Cat(<<Bol, Sp0, Lit("npm"), Sp1, Lit("list"), Bnd>>),  \* l.209  ^\s*npm\s+list\b
       Cat(<<Bol, Sp0, Lit("npm"), Sp1, Lit("ls"), Bnd>>),  \* l.210  ^\s*npm\s+ls\b
       Cat(<<Bol, Sp0, Lit("npm"), Sp1, Lit("view"), Bnd>>),  \* l.211  ^\s*npm\s+view\b
       Cat(<<Bol, Sp0, Lit("pip"), Sp1, Lit("show"), Bnd>>),  \* l.212  ^\s*pip\s+show\b
       Cat(<<Bol, Sp0, Lit("pip"), Sp1, Lit("list"), Bnd>>),  \* l.213  ^\s*pip\s+list\b
       Cat(<<Bol, Sp0, Lit("brew"), Sp1, Lit("info"), Bnd>>),  \* l.214  ^\s*brew\s+info\b
       Cat(<<Bol, Sp0, Lit("brew"), Sp1, Lit("list"), Bnd>>),  \* l.215  ^\s*brew\s+list\b
       Cat(<<Bol, Sp0, Lit("ping"), Bnd>>),  \* l.217  ^\s*ping\b
       Cat(<<Bol, Sp0, Lit("dig"), Bnd>>),  \* l.218  ^\s*dig\b
       Cat(<<Bol, Sp0, Lit("nslookup"), Bnd>>),  \* l.219  ^\s*nslookup\b
       Cat(<<Bol, Sp0, Lit("gh"), Sp1, Lit("pr"), Sp1, Alt(<<Lit("list"), Lit("view"), Lit("status")>>), Bnd>>),  \* l.221  ^\s*gh\s+pr\s+(list|view|status)\b
       Cat(<<Bol, Sp0, Lit("gh"), Sp1, Lit("issue"), Sp1, Alt(<<Lit("list"), Lit("view")>>), Bnd>>),  \* l.222  ^\s*gh\s+issue\s+(list|view)\b
       Cat(<<Bol, Sp0, Lit("gh"), Sp1, Lit("api"), Bnd>>)  \* l.223  ^\s*gh\s+api\b
    >>

\* for pattern, action, risk in table: if pattern.search(cmd): return ...
\* the index of the first rule of the table that matches, 0 when none does
RECURSIVE FirstMatchFrom(_, _, _)
FirstMatchFrom(table, i, cmd) ==
    IF i > Len(table) THEN 0
    ELSE IF search(table[i], cmd) THEN i
    ELSE FirstMatchFrom(table, i + 1, cmd)

FirstMatch(table, cmd) == FirstMatchFrom(table, 1, cmd)

(***************************************************************************)
(* Values.  A tool_input is a JSON value: an object, of which the model    *)
(* keeps the keys the hook reads (an absent key reads as "", the default   *)
(* of every .get of the source), or a value that is no object.  A function *)
(* result is a record, so that an uncaught exception is a result too.      *)
(***************************************************************************)
ToolInput(command, file_path) ==
    [is_object |-> TRUE, command |-> command, file_path |-> file_path]
EmptyObject == ToolInput("", "")
NotAnObject == [is_object |-> FALSE, command |-> "", file_path |-> ""]

Verdict(level, table, rule) == [level |-> level, table |-> table, rule |-> rule]
NoVerdict == Verdict("none", "none", 0)
RaisedVerdict == Verdict("raised", "none", 0)     \* AttributeError out of tool_input.get

Returned(v) == [raised |-> FALSE, called |-> TRUE, value |-> v]
Raised == [raised |-> TRUE, called |-> TRUE, value |-> FALSE]
NotCalled == [raised |-> FALSE, called |-> FALSE, value |-> FALSE]

(***************************************************************************)
(* classify_risk                                                           *)
(***************************************************************************)
\* every tool but Bash passed as "low"
ClassifyRiskOtherToolsLow(tn, ti) ==
    IF tn = "Bash"
    THEN IF ~ti.is_object THEN RaisedVerdict
         ELSE LET cmd == ti.command
                  high == FirstMatch(HIGH_RISK_PATTERNS, cmd)
                  low == FirstMatch(LOW_RISK_PATTERNS, cmd)
                  medium == FirstMatch(MEDIUM_RISK_PATTERNS, cmd)
              IN IF high # 0 THEN Verdict("high", "HIGH_RISK_PATTERNS", high)
                 ELSE IF low # 0 THEN Verdict("low", "LOW_RISK_PATTERNS", low)
                 ELSE IF medium # 0 THEN Verdict("medium", "MEDIUM_RISK_PATTERNS", medium)
                 ELSE Verdict("medium", "unclassified", 0)
    ELSE Verdict("low", "other", 0)

\* a Bash command that no table matches passed as "low"
ClassifyRiskUnknownLow(tn, ti) ==
    IF tn = "Bash"
    THEN IF ~ti.is_object THEN RaisedVerdict
         ELSE LET cmd == ti.command
                  high == FirstMatch(HIGH_RISK_PATTERNS, cmd)
                  low == FirstMatch(LOW_RISK_PATTERNS, cmd)
                  medium == FirstMatch(MEDIUM_RISK_PATTERNS, cmd)
              IN IF high # 0 THEN Verdict("high", "HIGH_RISK_PATTERNS", high)
                 ELSE IF low # 0 THEN Verdict("low", "LOW_RISK_PATTERNS", low)
                 ELSE IF medium # 0 THEN Verdict("medium", "MEDIUM_RISK_PATTERNS", medium)
                 ELSE Verdict("low", "unclassified", 0)
    ELSE IF tn \in {"Edit", "Write"}
    THEN IF ~ti.is_object THEN RaisedVerdict
         ELSE Verdict("medium", tn, 0)
    ELSE Verdict("medium", "other", 0)

classify_risk(tn, ti) ==
    IF tn = "Bash"
    THEN IF ~ti.is_object THEN RaisedVerdict
         ELSE LET cmd == ti.command
                  high == FirstMatch(HIGH_RISK_PATTERNS, cmd)
                  low == FirstMatch(LOW_RISK_PATTERNS, cmd)
                  medium == FirstMatch(MEDIUM_RISK_PATTERNS, cmd)
              IN IF high # 0 THEN Verdict("high", "HIGH_RISK_PATTERNS", high)
                 ELSE IF low # 0 THEN Verdict("low", "LOW_RISK_PATTERNS", low)
                 ELSE IF medium # 0 THEN Verdict("medium", "MEDIUM_RISK_PATTERNS", medium)
                 ELSE Verdict("medium", "unclassified", 0)
    ELSE IF tn \in {"Edit", "Write"}
    THEN IF ~ti.is_object THEN RaisedVerdict
         ELSE Verdict("medium", tn, 0)
    ELSE Verdict("medium", "other", 0)

(***************************************************************************)
(* Allow-list checking                                                     *)
(***************************************************************************)
\* the while loop of _has_compound_operators, from index i (0-based in the source)
RECURSIVE StandaloneAmpFrom(_, _)
StandaloneAmpFrom(cmd, i) ==
    IF i > Len(cmd) THEN FALSE
    ELSE IF Ch(cmd, i) = "&"
         THEN IF i + 1 <= Len(cmd) /\ Ch(cmd, i + 1) = "&" THEN StandaloneAmpFrom(cmd, i + 2)
              ELSE IF i + 1 <= Len(cmd) /\ Ch(cmd, i + 1) = ">"
                   THEN StandaloneAmpFrom(cmd, i + 2)
              ELSE TRUE
         ELSE StandaloneAmpFrom(cmd, i + 1)

\* "||" left out of the operators looked for
HasCompoundOperatorsNoOr(cmd) ==
    \/ contains(cmd, ";")
    \/ contains(cmd, "&&")
    \/ StandaloneAmpFrom(cmd, 1)

_has_compound_operators(cmd) ==
    \/ contains(cmd, ";")
    \/ contains(cmd, "&&")
    \/ contains(cmd, "||")
    \/ StandaloneAmpFrom(cmd, 1)

\* A settings document as found on disk.
\*   "ok"            a JSON object whose permissions.allow is the list `allow`
\*   "invalid_json"  json.load raises JSONDecodeError
\*   "not_object"    valid JSON whose top level is an array
Doc(kind, allow) == [kind |-> kind, allow |-> allow]

\* _load_settings_files: the documents that json.load returns, in load order
_load_settings_files(files) == SelectSeq(files, LAMBDA d : d.kind # "invalid_json")

\* the length of the longest prefix of s made of \w characters
RECURSIVE WordPrefixLen(_, _)
WordPrefixLen(s, n) ==
    IF n < Len(s) /\ Ch(s, n + 1) \in WordChars THEN WordPrefixLen(s, n + 1) ELSE n

\* re.match(r"^(\w+)(?:\((.+)\))?$", pattern): \w+ takes the longest word prefix (the
\* character after a shorter one is a word character, which neither "(" nor $ accepts);
\* then the text ends, or "(", at least one character and a final ")" follow.
\* has_arg is "m.group(2) is not None".
AllowPatternMatch(pattern) ==
    LET n == WordPrefixLen(pattern, 0)
        len == Len(pattern)
        bare == [matched |-> n >= 1, tool |-> SubSeq(pattern, 1, n),
                 has_arg |-> FALSE, arg |-> ""]
    IN IF n = 0 THEN [matched |-> FALSE, tool |-> "", has_arg |-> FALSE, arg |-> ""]
       ELSE IF n = len \/ (n = len - 1 /\ Ch(pattern, len) = "\n") THEN bare
       ELSE IF /\ Ch(pattern, n + 1) = "("
               /\ len >= n + 3
               /\ Ch(pattern, len) = ")"
               /\ ~contains(SubSeq(pattern, n + 2, len - 1), "\n")
            THEN [matched |-> TRUE, tool |-> SubSeq(pattern, 1, n),
                  has_arg |-> TRUE, arg |-> SubSeq(pattern, n + 2, len - 1)]
       ELSE [matched |-> FALSE, tool |-> "", has_arg |-> FALSE, arg |-> ""]

\* the "prefix:*" form not recognised: every argument compared for equality
MatchAllowPatternExactOnly(pattern, tn, cmd) ==
    LET m == AllowPatternMatch(pattern)
    IN m.matched /\ m.tool = tn /\ (m.has_arg => cmd = m.arg)

_match_allow_pattern(pattern, tn, cmd) ==
    LET m == AllowPatternMatch(pattern)
    IN IF ~m.matched THEN FALSE
       ELSE IF m.tool # tn THEN FALSE
       ELSE IF ~m.has_arg THEN TRUE
       ELSE IF endswith(m.arg, ":*")
            THEN startswith(cmd, SubSeq(m.arg, 1, Len(m.arg) - 2))
       ELSE cmd = m.arg

\* the loops of is_allowed_by_settings over settings_list, from the i-th document:
\* settings.get raises AttributeError on a document that is no object
RECURSIVE AllowedFrom(_, _, _, _)
AllowedFrom(settings_list, i, tn, cmd) ==
    IF i > Len(settings_list) THEN Returned(FALSE)
    ELSE IF settings_list[i].kind # "ok" THEN Raised
    ELSE IF \E k \in 1..Len(settings_list[i].allow) :
                _match_allow_pattern(settings_list[i].allow[k], tn, cmd)
         THEN Returned(TRUE)
    ELSE AllowedFrom(settings_list, i + 1, tn, cmd)

is_allowed_by_settings(tn, ti, files) ==
    IF tn # "Bash" THEN Returned(FALSE)
    ELSE IF ~ti.is_object THEN Raised
    ELSE IF _has_compound_operators(ti.command) THEN Returned(FALSE)
    ELSE AllowedFrom(_load_settings_files(files), 1, tn, ti.command)

(***************************************************************************)
(* The inbound document.  `text` is what sys.stdin.read() returns: empty,  *)
(* whitespace only, no JSON at all, or JSON of value `value`.  Of a JSON   *)
(* value the model keeps its type, its truth value in Python, and, for an  *)
(* object, the set of its keys and the two members main() reads.           *)
(***************************************************************************)
Scalar(type, truthy) ==
    [type |-> type, truthy |-> truthy, keys |-> {},
     tool_name |-> "", tool_input |-> EmptyObject, tool_use_id |-> "", session_id |-> ""]
Object(keys, tn, ti) ==
    [type |-> "object", truthy |-> keys # {}, keys |-> keys,
     tool_name |-> IF "tool_name" \in keys THEN tn ELSE "",
     tool_input |-> IF "tool_input" \in keys THEN ti ELSE EmptyObject,
     tool_use_id |-> IF "tool_use_id" \in keys THEN "toolu_01" ELSE "",
     session_id |-> IF "session_id" \in keys THEN "sess_1" ELSE ""]
Invocation(tn, ti) ==
    Object({"tool_name", "tool_input", "tool_use_id", "session_id"}, tn, ti)
Document(text, value) == [text |-> text, value |-> value]

MainCommands ==
    {"rm -rf x", "cd /tmp && rm -rf important/", "npm install", "cd /a && npm install",
     "npm install && foo", "foo", "git status --short"}

JsonValues ==
    {Scalar("null", FALSE), Scalar("array", FALSE), Scalar("array", TRUE),
     Scalar("string", TRUE), Object({}, "", EmptyObject),
     Object({"session_id"}, "", EmptyObject),
     Object({"tool_name"}, "Bash", EmptyObject),
     Invocation("Bash", NotAnObject),
     Invocation("Edit", NotAnObject),
     Invocation("WebFetch", NotAnObject),
     Invocation("Edit", ToolInput("", "/src/app.py")),
     Invocation("Write", ToolInput("", "notes.txt")),
     Invocation("WebFetch", EmptyObject)}
    \cup {Invocation("Bash", ToolInput(c, "")) : c \in MainCommands}

StdinDocuments ==
    {Document(t, Scalar("null", FALSE)) : t \in {"empty", "blank", "invalid"}}
    \cup {Document("json", v) : v \in JsonValues}

DocCatalogue ==
    {Doc("ok", <<"Bash">>), Doc("ok", <<"Bash(npm install:*)">>),
     Doc("ok", <<"Edit", "Bash(rm:*)">>),
     Doc("invalid_json", <<>>), Doc("not_object", <<>>)}

FileSystems == UNION {[1..n -> DocCatalogue] : n \in 0..MaxDocs}

(***************************************************************************)
(* main()                                                                  *)
(***************************************************************************)
MaxPolls == 20      \* for _ in range(20)

\* a POST body: the JSON object that was sent, if one was
Posted(body) == [posted |-> TRUE, body |-> body]
NothingPosted == [posted |-> FALSE, body |-> <<>>]

\* the dismiss hook: not run yet, ended without a POST, or POSTed `body`
NotRun == [ran |-> FALSE, posted |-> FALSE, body |-> <<>>]
Dismissed(p) == [ran |-> TRUE, posted |-> p.posted, body |-> p.body]

Init ==
    /\ pc = "read_input"
    /\ stdin \in StdinDocuments
    /\ fs \in FileSystems
    /\ tool_name = ""
    /\ tool_input = EmptyObject
    /\ risk = NoVerdict
    /\ allowed = NotCalled
    /\ health_checks = 0
    /\ polls = 0
    /\ popen_calls = 0
    /\ approver = "unknown"
    /\ ollama_calls = 0
    /\ summary = "none"
    /\ notify_calls = 0
    /\ notify_result = "none"
    /\ envelope = NothingPosted
    /\ dismissal = NotRun
    /\ exit_status = -1

\* sys.exit(status), or the interpreter ending on an uncaught exception (status 1)
Exit(status) == pc' = "exited" /\ exit_status' = status

\* read_input returns None for text that strips to nothing and lets json.loads raise;
\* "if not hook_input: sys.exit(0)"; hook_input.get raises on a value that is no object
ReadInput ==
    /\ pc = "read_input"
    /\ IF stdin.text \in {"empty", "blank"} THEN Exit(0) /\ UNCHANGED <<tool_name, tool_input>>
       ELSE IF stdin.text = "invalid" THEN Exit(1) /\ UNCHANGED <<tool_name, tool_input>>
       ELSE IF ~stdin.value.truthy THEN Exit(0) /\ UNCHANGED <<tool_name, tool_input>>
       ELSE IF stdin.value.type # "object"
            THEN Exit(1) /\ UNCHANGED <<tool_name, tool_input>>
       ELSE /\ tool_name' = stdin.value.tool_name
            /\ tool_input' = stdin.value.tool_input
            /\ pc' = "classify_risk"
            /\ UNCHANGED exit_status
    /\ UNCHANGED <<envelope, dismissal>>
    /\ UNCHANGED <<stdin, fs, risk, allowed, health_checks, polls, popen_calls, approver,
                   ollama_calls, summary, notify_calls, notify_result>>

\* the allow list consulted for every verdict that is not "low"
ConsultsAllowListUnlessLow(level) == level # "low"

\* "risk_level == "medium" and is_allowed_by_settings(...)": the allow list is
\* consulted for this level only
ConsultsAllowList(level) == level = "medium"

\* Steps 1 and 2 of main
ClassifyRisk ==
    /\ pc = "classify_risk"
    /\ LET v == classify_risk(tool_name, tool_input)
       IN /\ risk' = v
          /\ IF v.level = "raised" THEN Exit(1)
             ELSE IF v.level = "low" THEN Exit(0)
             ELSE IF ConsultsAllowList(v.level)
                  THEN pc' = "is_allowed_by_settings" /\ UNCHANGED exit_status
             ELSE pc' = "_ensure_approver_running" /\ UNCHANGED exit_status
    /\ UNCHANGED <<envelope, dismissal>>
    /\ UNCHANGED <<stdin, fs, tool_name, tool_input, allowed, health_checks, polls,
                   popen_calls, approver, ollama_calls, summary, notify_calls,
                   notify_result>>

\* Step 3 of main
CheckAllowList ==
    /\ pc = "is_allowed_by_settings"
    /\ LET a == is_allowed_by_settings(tool_name, tool_input, fs)
       IN /\ allowed' = a
          /\ IF a.raised THEN Exit(1)
             ELSE IF a.value THEN Exit(0)
             ELSE pc' = "_ensure_approver_running" /\ UNCHANGED exit_status
    /\ UNCHANGED <<envelope, dismissal>>
    /\ UNCHANGED <<stdin, fs, tool_name, tool_input, risk, health_checks, polls,
                   popen_calls, approver, ollama_calls, summary, notify_calls,
                   notify_result>>

\* _ensure_approver_running: the first _is_approver_running (one GET, any failure is False)
HealthCheck ==
    /\ pc = "_ensure_approver_running"
    /\ health_checks' = health_checks + 1
    /\ \E up \in BOOLEAN :
          IF up THEN approver' = "running" /\ pc' = "summarize_with_ollama"
          ELSE approver' = "unknown" /\ pc' = "isfile"
    /\ UNCHANGED <<envelope, dismissal>>
    /\ UNCHANGED <<stdin, fs, tool_name, tool_input, risk, allowed, polls, popen_calls,
                   ollama_calls, summary, notify_calls, notify_result, exit_status>>

\* os.path.isfile(APPROVER_BINARY)
CheckBinary ==
    /\ pc = "isfile"
    /\ \E exists \in BOOLEAN :
          IF exists THEN pc' = "Popen" /\ UNCHANGED approver
          ELSE approver' = "binary_not_found" /\ pc' = "summarize_with_ollama"
    /\ UNCHANGED <<envelope, dismissal>>
    /\ UNCHANGED <<stdin, fs, tool_name, tool_input, risk, allowed, health_checks, polls,
                   popen_calls, ollama_calls, summary, notify_calls, notify_result,
                   exit_status>>

\* subprocess.Popen([APPROVER_BINARY], ...), any exception caught
StartApprover ==
    /\ pc = "Popen"
    /\ popen_calls' = popen_calls + 1
    /\ \E started \in BOOLEAN :
          IF started THEN pc' = "wait" /\ UNCHANGED approver
          ELSE approver' = "failed_to_start" /\ pc' = "summarize_with_ollama"
    /\ UNCHANGED <<envelope, dismissal>>
    /\ UNCHANGED <<stdin, fs, tool_name, tool_input, risk, allowed, health_checks, polls,
                   ollama_calls, summary, notify_calls, notify_result, exit_status>>

\* one iteration of "for _ in range(20): time.sleep(0.2); if _is_approver_running()"
PollHealth ==
    /\ pc = "wait"
    /\ polls < MaxPolls
    /\ polls' = polls + 1
    /\ health_checks' = health_checks + 1
    /\ \E up \in BOOLEAN :
          IF up THEN approver' = "running" /\ pc' = "summarize_with_ollama"
          ELSE IF polls + 1 = MaxPolls
               THEN approver' = "not_responding" /\ pc' = "summarize_with_ollama"
          ELSE UNCHANGED <<approver, pc>>
    /\ UNCHANGED <<envelope, dismissal>>
    /\ UNCHANGED <<stdin, fs, tool_name, tool_input, risk, allowed, popen_calls,
                   ollama_calls, summary, notify_calls, notify_result, exit_status>>

\* summarize_with_ollama (one POST, any failure is None), then summarize_fallback
Summarize ==
    /\ pc = "summarize_with_ollama"
    /\ ollama_calls' = ollama_calls + 1
    /\ \E answered \in BOOLEAN : summary' = IF answered THEN "ollama" ELSE "fallback"
    /\ pc' = "notify_approver"
    /\ UNCHANGED <<envelope, dismissal>>
    /\ UNCHANGED <<stdin, fs, tool_name, tool_input, risk, allowed, health_checks, polls,
                   popen_calls, approver, notify_calls, notify_result, exit_status>>

\* notify_approver: the payload handed to json.dumps; risk_action and
\* risk_description are the texts of the rule that gave the verdict
NotifyPayload ==
    [tool_name |-> tool_name,
     tool_input |-> tool_input,
     summary |-> summary,
     risk_level |-> risk.level,
     risk_action |-> <<risk.table, risk.rule, "action">>,
     risk_description |-> <<risk.table, risk.rule, "description">>]

\* a failed POST tried again, up to three times
NotifyApproverWithRetry ==
    /\ pc = "notify_approver"
    /\ notify_calls' = notify_calls + 1
    /\ \E sent \in BOOLEAN :
          /\ notify_result' = IF sent THEN "sent" ELSE "failed"
          /\ IF sent \/ notify_calls + 1 >= 3 THEN Exit(0) ELSE UNCHANGED <<pc, exit_status>>
    /\ envelope' = Posted(NotifyPayload)
    /\ UNCHANGED dismissal
    /\ UNCHANGED <<stdin, fs, tool_name, tool_input, risk, allowed, health_checks, polls,
                   popen_calls, approver, ollama_calls, summary>>

\* the POST made as soon as the front end has been looked for, before any summary
NotifyApproverBeforeSummary ==
    /\ pc \in {"summarize_with_ollama", "notify_approver"}
    /\ notify_calls' = notify_calls + 1
    /\ \E sent \in BOOLEAN : notify_result' = IF sent THEN "sent" ELSE "failed"
    /\ Exit(0)
    /\ envelope' = Posted(NotifyPayload)
    /\ UNCHANGED dismissal
    /\ UNCHANGED <<stdin, fs, tool_name, tool_input, risk, allowed, health_checks, polls,
                   popen_calls, approver, ollama_calls, summary>>

\* notify_approver (one POST, any failure is False), then sys.exit(0)
NotifyApprover ==
    /\ pc = "notify_approver"
    /\ notify_calls' = notify_calls + 1
    /\ \E sent \in BOOLEAN : notify_result' = IF sent THEN "sent" ELSE "failed"
    /\ Exit(0)
    /\ envelope' = Posted(NotifyPayload)
    /\ UNCHANGED dismissal
    /\ UNCHANGED <<stdin, fs, tool_name, tool_input, risk, allowed, health_checks, polls,
                   popen_calls, approver, ollama_calls, summary>>

(***************************************************************************)
(* menubar-dismiss.py, the PostToolUse hook of the same invocation: it     *)
(* runs after the approval hook has ended, on a document that carries the  *)
(* identifiers of the inbound document.  Its whole body is inside          *)
(* "try: ... except Exception: pass": text that is no JSON, or JSON that   *)
(* is no object, ends it before the POST; empty text is read as {}.        *)
(***************************************************************************)
DismissPayload(d) ==
    IF d.text \in {"empty", "blank"} THEN Posted([tool_use_id |-> ""])
    ELSE IF d.text = "invalid" THEN NothingPosted
    ELSE IF d.value.type # "object" THEN NothingPosted
    ELSE Posted([tool_use_id |-> d.value.tool_use_id])

Dismiss ==
    /\ pc = "exited"
    /\ ~dismissal.ran
    /\ dismissal' = Dismissed(DismissPayload(stdin))
    /\ UNCHANGED <<pc, stdin, fs, tool_name, tool_input, risk, allowed, health_checks,
                   polls, popen_calls, approver, ollama_calls, summary, notify_calls,
                   notify_result, envelope, exit_status>>

Next ==
    \/ ReadInput
    \/ ClassifyRisk
    \/ CheckAllowList
    \/ HealthCheck
    \/ CheckBinary
    \/ StartApprover
    \/ PollHealth
    \/ Summarize
    \/ NotifyApprover
    \/ Dismiss

Spec == Init /\ [][Next]_vars

(***************************************************************************)
(* classify_risk and is_allowed_by_settings applied on their own.          *)
(* The inputs are generated commands: up to MaxCd leading "cd" segments,   *)
(* then one or two simple commands, all joined by one sequencing operator. *)
(***************************************************************************)
SimpleCommands ==
    {"cd /z", "npm install", "rm -rf x", "git checkout .", "foo", "git status --short"}
PrefixProbes == {"git status-like-command", "npm installx", "foo &", "foo &>"}
Operators == {" && ", " || ", "; "}
Dirs == <<"/a", "/b", "/c", "/d">>

\* "cd /a <op> cd /b <op> ..." with k segments, each followed by the operator
RECURSIVE CdChain(_, _)
CdChain(k, op) ==
    IF k = 0 THEN ""
    ELSE CdChain(k - 1, op) \o "cd " \o Dirs[((k - 1) % Len(Dirs)) + 1] \o op

GeneratedCommands ==
    SimpleCommands
    \cup {CdChain(k, op) \o a : k \in 1..MaxCd, op \in Operators, a \in SimpleCommands}
    \cup {CdChain(k, op) \o a \o op \o b :
            k \in 0..MaxCd, op \in Operators, a \in SimpleCommands, b \in SimpleCommands}

AllowEntries ==
    {"Bash", "Bash(npm install:*)", "Bash(git status:*)", "Bash(rm:*)", "Bash(foo)", "Edit"}

NoDocument == Document("none", Scalar("null", FALSE))

InitFn ==
    /\ \/ /\ pc = "call classify_risk"
          /\ \/ /\ tool_name = "Bash"
                /\ tool_input \in {ToolInput(c, "") : c \in GeneratedCommands \cup PrefixProbes}
             \/ /\ tool_name \in {"Edit", "Write", "WebFetch", "WebSearch", "Task"}
                /\ tool_input \in {ToolInput("", p) : p \in {"", "/src/app.py", "README.md"}}
          /\ fs = <<>>
       \/ /\ pc = "call is_allowed_by_settings"
          /\ tool_name \in {"Bash", "Edit"}
          /\ tool_input \in {ToolInput(c, "") : c \in GeneratedCommands \cup PrefixProbes}
          /\ fs \in {<<>>} \cup {<<Doc("ok", <<e>>)>> : e \in AllowEntries}
    /\ stdin = NoDocument
    /\ risk = NoVerdict
    /\ allowed = NotCalled
    /\ health_checks = 0
    /\ polls = 0
    /\ popen_calls = 0
    /\ approver = "unknown"
    /\ ollama_calls = 0
    /\ summary = "none"
    /\ notify_calls = 0
    /\ notify_result = "none"
    /\ envelope = NothingPosted
    /\ dismissal = NotRun
    /\ exit_status = -1

ApplyClassifyRisk ==
    /\ pc = "call classify_risk"
    /\ risk' = classify_risk(tool_name, tool_input)
    /\ pc' = "returned"
    /\ UNCHANGED <<envelope, dismissal>>
    /\ UNCHANGED <<stdin, fs, tool_name, tool_input, allowed, health_checks, polls,
                   popen_calls, approver, ollama_calls, summary, notify_calls,
                   notify_result, exit_status>>

ApplyIsAllowed ==
    /\ pc = "call is_allowed_by_settings"
    /\ allowed' = is_allowed_by_settings(tool_name, tool_input, fs)
    /\ pc' = "returned"
    /\ UNCHANGED <<envelope, dismissal>>
    /\ UNCHANGED <<stdin, fs, tool_name, tool_input, risk, health_checks, polls,
                   popen_calls, approver, ollama_calls, summary, notify_calls,
                   notify_result, exit_status>>

NextFn ==
    \/ ApplyClassifyRisk
    \/ ApplyIsAllowed

SpecFn == InitFn /\ [][NextFn]_vars

(***************************************************************************)
(* Vocabulary of the properties                                            *)
(***************************************************************************)
\* some rule of the table matches the text
MatchesSome(table, text) == \E i \in 1..Len(table) : search(table[i], text)

\* the inbound document is a JSON object naming a tool
IsInvocation(d) == d.text = "json" /\ d.value.type = "object" /\ "tool_name" \in d.value.keys
IsBashCommand(d) ==
    IsInvocation(d) /\ d.value.tool_name = "Bash" /\ d.value.tool_input.is_object
CommandOf(d) == d.value.tool_input.command

\* the state in which classify_risk has just returned
JustClassified ==
    /\ risk # NoVerdict
    /\ allowed = NotCalled
    /\ health_checks = 0
    /\ pc \in {"exited", "is_allowed_by_settings", "_ensure_approver_running"}

\* some allow entry of some well-formed settings document matches the command
SomeEntryMatches(files, tn, cmd) ==
    \E i \in 1..Len(files) :
        /\ files[i].kind = "ok"
        /\ \E k \in 1..Len(files[i].allow) : _match_allow_pattern(files[i].allow[k], tn, cmd)

(***************************************************************************)
(* C1: a Bash command that matches a high-tier rule is classified "high"   *)
(* whatever the settings documents hold, the allow list is never consulted *)
(* for it, and the run posts to the notify endpoint before it exits.       *)
(***************************************************************************)
C1_HighNeverSilenced ==
    /\ (JustClassified /\ IsBashCommand(stdin)
          /\ MatchesSome(HIGH_RISK_PATTERNS, CommandOf(stdin)))
       => (risk.level = "high" /\ pc = "_ensure_approver_running")
    /\ risk.level = "high"
       => /\ allowed = NotCalled
          /\ pc = "exited" => (notify_calls = 1 /\ exit_status = 0)

\* a high command that both a bare "Bash" entry and a prefix entry on disk match
\* was notified
C1_Witness ==
    /\ pc = "exited"
    /\ risk.level = "high"
    /\ notify_calls = 1
    /\ tool_input.command = "rm -rf x"
    /\ \E i \in 1..Len(fs) : fs[i] = Doc("ok", <<"Edit", "Bash(rm:*)">>)
    /\ \E i \in 1..Len(fs) : fs[i] = Doc("ok", <<"Bash">>)

FrontEndSteps ==
    {"_ensure_approver_running", "isfile", "Popen", "wait", "summarize_with_ollama",
     "notify_approver"}

C3_BestEffortNotify ==
    /\ health_checks <= 21
    /\ polls <= 20
    /\ popen_calls <= 1
    /\ notify_calls <= 1
    /\ pc = "wait" => health_checks = 1 + polls
    /\ pc \in FrontEndSteps
       => (exit_status = -1 /\ ENABLED (HealthCheck \/ CheckBinary \/ StartApprover
                                          \/ PollHealth \/ Summarize \/ NotifyApprover))
    /\ (pc = "exited"
          /\ (approver \in {"binary_not_found", "failed_to_start", "not_responding"}
                \/ notify_result = "failed"))
       => (exit_status = 0 /\ notify_calls = 1)

\* the front end never answered any of the 21 health checks, the POST failed, exit 0
C3_Witness ==
    /\ pc = "exited"
    /\ approver = "not_responding"
    /\ health_checks = 21
    /\ notify_result = "failed"
    /\ exit_status = 0

(***************************************************************************)
(* C4, as claimed: an empty or malformed inbound document (whitespace, no  *)
(* JSON, JSON that is no object, an object without a tool name) ends the   *)
(* run with status 0 and without a health check, a summarization request   *)
(* or a notification; and no run at all exits with another status.         *)
(***************************************************************************)
Malformed(d) == ~IsInvocation(d)

C4_MalformedInputSilent ==
    pc = "exited"
    => /\ exit_status = 0
       /\ Malformed(stdin) => (health_checks = 0 /\ ollama_calls = 0 /\ notify_calls = 0)

(***************************************************************************)
(* C5, as claimed: an invocation of a tool other than Bash is classified   *)
(* "low" and the run ends without a notification.                          *)
(***************************************************************************)
IsOtherTool(d) ==
    IsInvocation(d) /\ d.value.tool_name # "Bash" /\ d.value.tool_input.is_object

HasSequencingOperator(cmd) ==
    contains(cmd, "&&") \/ contains(cmd, "||") \/ contains(cmd, ";")

Unmatched(cmd) ==
    /\ ~HasSequencingOperator(cmd)
    /\ ~MatchesSome(HIGH_RISK_PATTERNS, cmd)
    /\ ~MatchesSome(MEDIUM_RISK_PATTERNS, cmd)
    /\ ~MatchesSome(LOW_RISK_PATTERNS, cmd)

Unclassified == Verdict("medium", "unclassified", 0)

RECURSIVE Strip(_)
Strip(s) ==
    IF s = "" THEN s
    ELSE IF Ch(s, 1) \in SpaceChars THEN Strip(SubSeq(s, 2, Len(s)))
    ELSE IF Ch(s, Len(s)) \in SpaceChars THEN Strip(SubSeq(s, 1, Len(s) - 1))
    ELSE s

RECURSIVE SegmentsFrom(_, _, _)
SegmentsFrom(s, i, start) ==
    IF i > Len(s) THEN <<Strip(SubSeq(s, start, Len(s)))>>
    ELSE IF i < Len(s) /\ SubSeq(s, i, i + 1) \in {"&&", "||"}
         THEN <<Strip(SubSeq(s, start, i - 1))>> \o SegmentsFrom(s, i + 2, i + 2)
    ELSE IF Ch(s, i) = ";"
         THEN <<Strip(SubSeq(s, start, i - 1))>> \o SegmentsFrom(s, i + 1, i + 1)
    ELSE SegmentsFrom(s, i + 1, start)

Segments(cmd) == SegmentsFrom(cmd, 1, 1)
IsDirectoryChange(seg) == seg = "cd" \/ startswith(seg, "cd ")

resolve(cmd) ==
    LET segs == Segments(cmd)
        real == {i \in 1..Len(segs) : ~IsDirectoryChange(segs[i])}
    IN IF Len(segs) = 1 \/ real = {} THEN cmd
       ELSE segs[CHOOSE i \in real : \A j \in real : j <= i]

IsCompound(cmd) == Len(Segments(cmd)) > 1

ClassifyReturned == pc = "returned" /\ risk # NoVerdict
IsAllowedReturned == pc = "returned" /\ allowed.called

(***************************************************************************)
(* C7, as claimed: a compound Bash command one of whose segments, at any   *)
(* position, matches a high-tier rule is classified "high".                *)
(***************************************************************************)
C7_HighSegmentIsHigh ==
    (ClassifyReturned /\ tool_name = "Bash" /\ IsCompound(tool_input.command)
       /\ \E i \in 1..Len(Segments(tool_input.command)) :
             MatchesSome(HIGH_RISK_PATTERNS, Segments(tool_input.command)[i]))
    => risk.level = "high"

(***************************************************************************)
(* C8, as claimed: a Bash command that matches no high-tier rule and whose *)
(* resolved effective command matches a medium-tier rule is classified     *)
(* "medium".                                                               *)
(***************************************************************************)
C8_ResolvedMediumIsMedium ==
    (ClassifyReturned /\ tool_name = "Bash"
       /\ ~MatchesSome(HIGH_RISK_PATTERNS, tool_input.command)
       /\ MatchesSome(MEDIUM_RISK_PATTERNS, resolve(tool_input.command)))
    => risk.level = "medium"

(***************************************************************************)
(* C9, as claimed: a Bash command made of directory changes followed by a  *)
(* final real command is pre-authorized exactly when some allow entry      *)
(* matches that final command; a command without operators is matched as   *)
(* it is.                                                                  *)
(***************************************************************************)
\* directory changes only, then one real command
IsCdChain(cmd) ==
    LET segs == Segments(cmd)
    IN /\ ~IsDirectoryChange(segs[Len(segs)])
       /\ \A i \in 1..(Len(segs) - 1) : IsDirectoryChange(segs[i])

C9_AllowListSeesResolvedCommand ==
    (IsAllowedReturned /\ tool_name = "Bash" /\ IsCdChain(tool_input.command))
    => allowed = Returned(SomeEntryMatches(fs, "Bash", resolve(tool_input.command)))

(***************************************************************************)
(* C9, amended: the allow list is matched against the whole command text,  *)
(* and only for a command without compound operators: for a Bash command   *)
(* that contains ";", "&&", "||" or an "&" that neither "&" nor ">"        *)
(* follows, is_allowed_by_settings answers False whatever the entries (so  *)
(* directory changes followed by a pre-authorized command are not          *)
(* pre-authorized); for any other Bash command it answers True exactly     *)
(* when some allow entry matches the whole text.                           *)
(***************************************************************************)
HasCompoundOperator(cmd) ==
    \/ HasSequencingOperator(cmd)
    \/ \E p \in 1..Len(cmd) :
          Ch(cmd, p) = "&" /\ (p = Len(cmd) \/ Ch(cmd, p + 1) \notin {"&", ">"})

C9_CompoundNeverPreauthorized ==
    (IsAllowedReturned /\ tool_name = "Bash")
    => allowed = Returned(/\ ~HasCompoundOperator(tool_input.command)
                          /\ SomeEntryMatches(fs, "Bash", tool_input.command))

\* "cd /a && npm install" is refused under the prefix entry for "npm install",
\* which matches its final command
C9_Witness ==
    /\ IsAllowedReturned
    /\ tool_name = "Bash"
    /\ tool_input.command = "cd /a && npm install"
    /\ fs = <<Doc("ok", <<"Bash(npm install:*)">>)>>
    /\ allowed = Returned(FALSE)

(***************************************************************************)
(* C10, as claimed: a prefix entry authorizes a Bash command that is the   *)
(* prefix or continues it after a space ("git status --short" under the    *)
(* entry for "git status"), no Bash command that merely starts with the    *)
(* same characters ("git status-like-command"), and no other tool.         *)
(***************************************************************************)
PrefixEntries ==
    [e \in {"Bash(git status:*)", "Bash(npm install:*)"} |->
        IF e = "Bash(git status:*)" THEN "git status" ELSE "npm install"]

C10_PrefixRespectsBoundary ==
    \A e \in DOMAIN PrefixEntries :
        (IsAllowedReturned /\ fs = <<Doc("ok", <<e>>)>>
           /\ ~HasCompoundOperator(tool_input.command))
        => allowed = Returned(/\ tool_name = "Bash"
                              /\ \/ tool_input.command = PrefixEntries[e]
                                 \/ startswith(tool_input.command, PrefixEntries[e] \o " "))

(***************************************************************************)
(* C11: a settings document that is missing, unreadable or malformed       *)
(* (invalid JSON, or JSON that is no object) is skipped without raising:   *)
(* whenever main() has consulted the allow list for a Bash command without *)
(* compound operators, is_allowed_by_settings has returned a boolean, equal*)
(* to whether some entry of the well-formed documents matches the command, *)
(* and the run has not ended on an exception.                              *)
(***************************************************************************)
C11_BadDocumentsSkipped ==
    (/\ allowed # NotCalled
     /\ IsBashCommand(stdin)
     /\ ~_has_compound_operators(CommandOf(stdin)))
    => /\ ~allowed.raised
       /\ allowed.value = SomeEntryMatches(fs, "Bash", CommandOf(stdin))
       /\ exit_status # 1


(***************************************************************************)
(* C12: every notification envelope the approval hook sends carries the    *)
(* invocation identifier and the session identifier of the inbound         *)
(* document, and the dismiss call sent after the action completes carries  *)
(* that same invocation identifier, so that it names exactly the           *)
(* notification created for the invocation.                                *)
(***************************************************************************)
C12_EnvelopeCarriesCorrelationIds ==
    (envelope.posted /\ IsInvocation(stdin))
    => /\ {"tool_use_id", "session_id"} \subseteq DOMAIN envelope.body
       /\ envelope.body.tool_use_id = stdin.value.tool_use_id
       /\ envelope.body.session_id = stdin.value.session_id
       /\ dismissal.posted => dismissal.body.tool_use_id = envelope.body.tool_use_id

(***************************************************************************)
(* C13: within one run the stages happen in a fixed order.  The stage of   *)
(* main() between allow-list resolution and the notify call is the one     *)
(* that computes the text of the notification (summarize_with_ollama, then *)
(* summarize_fallback), after the front end has been looked for; main()    *)
(* has no other enrichment step.                                           *)
(*   - the allow list is consulted only once classification has returned,  *)
(*     and only after a "medium" verdict;                                  *)
(*   - a later stage has started only after a "high" verdict, or a         *)
(*     "medium" one for which allow-list resolution has returned False;    *)
(*   - the notify call is dispatched only once the text is computed;       *)
(*   - a run that short-circuits ("low", or "medium" and pre-authorized)   *)
(*     or that ends on an exception has executed no later stage.           *)
(***************************************************************************)
Classified == risk # NoVerdict
LaterStageStarted ==
    health_checks > 0 \/ popen_calls > 0 \/ ollama_calls > 0 \/ summary # "none"
        \/ notify_calls > 0 \/ envelope.posted
ShortCircuited == risk.level = "low" \/ allowed = Returned(TRUE)

EmptyOrObject(d) ==
    d.text \in {"empty", "blank"} \/ (d.text = "json" /\ d.value.type = "object")
EmptyDocument(d) == d.text \in {"empty", "blank"} \/ d.value.keys = {}
MatchesLowOnly(d) ==
    /\ IsBashCommand(d)
    /\ ~MatchesSome(HIGH_RISK_PATTERNS, CommandOf(d))
    /\ MatchesSome(LOW_RISK_PATTERNS, CommandOf(d))
MediumAndListed(d) ==
    /\ IsBashCommand(d)
    /\ risk.level = "medium"
    /\ ~HasCompoundOperator(CommandOf(d))
    /\ SomeEntryMatches(fs, "Bash", CommandOf(d))

C14_SilentExactlyInThreeSituations ==
    /\ (JustClassified /\ EmptyOrObject(stdin))
       => (risk.level = "low" <=> MatchesLowOnly(stdin))
    /\ (pc = "exited" /\ EmptyOrObject(stdin))
       => (notify_calls = 0
             <=> EmptyDocument(stdin) \/ risk.level = "low" \/ MediumAndListed(stdin))
====
